---- MODULE Spec2Model ----
(***************************************************************************)
(* Model of the zabbix_mon metric delivery pipeline: the scheduler of      *)
(* internal/scheduler/scheduler.go, the concurrent collection of           *)
(* internal/collector/collector.go and the control-plane client            *)
(* (Initialize / SendMetrics) of the zabbix package.                       *)
(***************************************************************************)
EXTENDS Integers, Sequences, FiniteSets, TLC

\* ---------------------------------------------------------------- bounds
\* Largest value of Config.MaxRetries explored (the default is 3).
MaxRetriesBound == 3
\* Longest payload of a frame explored, in bytes.
MaxPayloadLen == 2
\* Number of Initialize calls followed on one client.
MaxInitCalls == 2
\* Number of negative values of Config.MaxRetries explored in the cycles of
\* RunSpec.
NegativeRetriesBound == 1
\* Length of the one long request payload explored: its length does not fit
\* in one byte.
LongPayloadLen == 258

\* ------------------------------------------------------ program constants
DefaultMaxRetries == 3
RetryBackoffBase == 1
ZabbixHost == "monitoring-host"
NumTasks == 4
ResultsCap_small == NumTasks - 1
ResultsCap == 4
TickerCap == 1
senderDataLen == 8
MaxResponseLen == 1048576

Categories == {"CPU", "Memory", "Disk", "Network"}
\* Unix time of the time.Now() call of a Collect, and the interval after
\* which the next cycle makes its own.
CollectTime == 1700000000
CollectInterval == 10
\* Value a successful sampling writes into the fields of its category.
Sampled == 42

\* keys of GetZabbixItems(), in the order of the catalog
CatalogKeys ==
  << "system.cpu.util[,idle]", "system.cpu.load[percpu,avg1]",
     "system.cpu.load[percpu,avg5]", "system.cpu.load[percpu,avg15]",
     "vm.memory.size[total]", "vm.memory.size[used]",
     "vm.memory.size[available]", "vm.memory.util",
     "vfs.fs.size[/,total]", "vfs.fs.size[/,used]",
     "vfs.fs.size[/,free]", "vfs.fs.pused[/]",
     "net.if.in[all]", "net.if.out[all]",
     "net.if.in[all,packets]", "net.if.out[all,packets]",
     "net.if.in[all,errors]", "net.if.out[all,errors]" >>

TranslatorKeys_withDrops == CatalogKeys \o <<"net.if.in[all,dropped]">>

\* keys passed to addMetric by convertMetricsToSenderData, in call order
TranslatorKeys ==
  << "system.cpu.util[,idle]", "system.cpu.load[percpu,avg1]",
     "system.cpu.load[percpu,avg5]", "system.cpu.load[percpu,avg15]",
     "vm.memory.size[total]", "vm.memory.size[used]",
     "vm.memory.size[available]", "vm.memory.util",
     "vfs.fs.size[/,total]", "vfs.fs.size[/,used]",
     "vfs.fs.size[/,free]", "vfs.fs.pused[/]",
     "net.if.in[all]", "net.if.out[all]",
     "net.if.in[all,packets]", "net.if.out[all,packets]",
     "net.if.in[all,errors]", "net.if.out[all,errors]" >>

\* category whose structure the i-th addMetric call reads its value from
KeyCategory(i) ==
  IF i <= 4 THEN "CPU"
  ELSE IF i <= 8 THEN "Memory"
  ELSE IF i <= 12 THEN "Disk"
  ELSE "Network"

\* the set of keys of the catalog
CatalogKeySet == {CatalogKeys[i] : i \in 1..Len(CatalogKeys)}

\* ------------------------------------------------ environment (inputs)
\* Item sets the server may report for the host in item.get.
ServerItemSets ==
  { {}, {"system.cpu.util[,idle]"}, CatalogKeySet }

\* Step of Initialize at which the server / network makes it fail.
InitFailures ==
  {"none", "login", "host", "hostEmpty", "load", "create", "createCount", "url"}

\* Auth token and host identifier the server hands out: before and after
\* the host was registered anew.
Sessions ==
  { [token |-> "token", hostID |-> "10084"],
    [token |-> "token2", hostID |-> "10085"] }

\* What the server answers to the requests of one Initialize call.
InitResponses ==
  [failAt : InitFailures, loaded : ServerItemSets,
   token : {"token"}, hostID : {"10084"}]

\* Item sets reported to the Initialize calls followed step by step; one
\* holds a key that is not in the catalog.
ClientItemSets == ServerItemSets \cup {{"agent.ping"}}

\* Answers of the server to the Initialize calls followed step by step.
ClientResponses ==
  { [failAt |-> f, loaded |-> l, token |-> x.token, hostID |-> x.hostID] :
      f \in InitFailures, l \in ClientItemSets, x \in Sessions }

\* Messages of the errors the sender can return from Send.
AuthPhrases ==
  {"Session terminated, re-login, please.", "Not authorized",
   "Session terminated", "invalid auth token"}

SenderErrors == AuthPhrases \cup {"connection refused"}

\* Bytes the payloads explored are made of ("s" and "f").
PayloadBytes == {115, 102}

\* Payloads of the frames explored.
Payloads == UNION {[1..n -> PayloadBytes] : n \in 0..MaxPayloadLen}

\* Payloads of the requests explored.
RequestPayloads == Payloads \cup {[i \in 1..LongPayloadLen |-> 115]}

\* First five bytes the server may answer with: the protocol header, a
\* header of another protocol version, and the start of an HTTP answer.
ResponseHeaders == {<<90, 66, 88, 68, 1>>, <<90, 66, 88, 68, 2>>,
                    <<72, 84, 84, 80, 47>>}

\* Lengths the server may declare in its answer.
DeclaredLens == (0..(MaxPayloadLen + 1)) \cup {MaxResponseLen, MaxResponseLen + 1}

\* Answers of the server: a header, a declared length and the payload
\* bytes it really sends.
ServerFrames == [hdr : ResponseHeaders, declared : DeclaredLens, body : Payloads]

\* Item maps of the clients on which one SendMetrics call is followed.
DrawnItemSets ==
  { {"agent.ping"},
    {"system.cpu.util[,idle]", "vm.memory.util"},
    {"system.cpu.util[,idle]", "vm.memory.util", "agent.ping"},
    CatalogKeySet }

VARIABLES
  maxRetries,     \* Config.MaxRetries
  cancelled,      \* s.ctx is done (Stop has run)
  startResult,    \* "none" | "ok" | "error": what Start returned
  pc,             \* monitoringLoop: "idle" | "first" | "cycle" | "select" | "stopped"
  ticks,          \* ticks buffered in ticker.C
  cpc,            \* collectAndSend: "none" | "collecting" | "send" | "backoff"
  deadline,       \* the 30 s timeout of the cycle context has expired
  attempt,        \* loop variable of sendMetricsWithRetry
  backoff,        \* local backoff of sendMetricsWithRetry, in seconds
  lastErr,        \* lastErr of sendMetricsWithRetry ("" is nil)
  task,           \* category goroutine: "idle" | "running" | "ok" | "failed"
  results,        \* the buffered channel results
  recvd,          \* loop variable i of Collect
  errors,         \* errors slice of Collect (names of the failed categories received)
  metricsSet,     \* categories written into the MetricSet of this Collect
  collectResult,  \* "none" | "snapshot" | "allFailed" | "ctxErr"
  client,         \* zabbix.Client: authToken, hostID, hostName, items, sender
  \* history variables
  inProgress,     \* collectAndSend calls entered and not yet returned
  sendAttempts,   \* SendMetrics calls in the current cycle
  initCalls,      \* Initialize calls in the current cycle
  waits,          \* completed backoff waits of the current cycle
  translations,   \* convertMetricsToSenderData calls in the current cycle
  collectCalls,   \* Collect calls in the current cycle
  lastOutcome,    \* how the last cycle ended ("none" while a cycle runs): "ok",
                  \* "collectFailed", "exhausted", "aborted" (backoff cut by
                  \* Stop) or "timedOut" (backoff cut by the cycle deadline)
  afterFailure,   \* the current cycle was started after a failed cycle
  allTransient,   \* every failure of this cycle had a non-authentication message
  ctxAtCollect,   \* the cycle context was done when Collect returned
  everCollected,  \* some Collect call has been made
  everSent,       \* some SendMetrics call has been made
  stopInBackoff,  \* Stop fired while sendMetricsWithRetry waited in a backoff
  ctl,            \* the last Initialize call since the current cycle began
                  \* (or made by Start): the methods it requested, and what
                  \* the server answered (failAt, loaded)
  dials,          \* data-plane connections attempted in the current cycle
  snd,            \* one call of SendMetrics or SendData followed step by step
                  \* (see NoCall for its fields)
  cli,            \* Initialize calls followed step by step next to a
                  \* translating reader (see NoInitializeCall for its fields)
  tr,             \* the last translation made and the one before it (see
                  \* NoTranslation for its fields)
  waited,         \* Scheduler.Wait has returned
  earlyEnd        \* one Collect call followed: the cycle context ended
                  \* while Collect had not returned and a category goroutine
                  \* had not yet reported

schedVars == <<maxRetries, cancelled, startResult, pc, ticks>>
cycleVars == <<cpc, deadline, attempt, backoff, lastErr>>
collectVars == <<task, results, recvd, errors, metricsSet, collectResult>>
histVars == <<inProgress, sendAttempts, initCalls, waits, translations,
              collectCalls, lastOutcome, afterFailure, allTransient,
              ctxAtCollect, everCollected, everSent, stopInBackoff>>
netVars == <<ctl, dials, snd, cli, tr, waited, earlyEnd>>
vars == <<schedVars, cycleVars, collectVars, client, histVars, netVars>>

\* context.WithTimeout(s.ctx, 30s): done when the parent is cancelled or
\* the timeout has expired
ctxDone == cancelled \/ deadline

\* ------------------------------------------------------------ the client
\* value of ctl while no Initialize call has been made
NoInitialize == [log |-> <<>>, failAt |-> "none", loaded |-> {}]

NewClient ==
  [authToken |-> "", hostID |-> "", hostName |-> "", items |-> {},
   sender |-> FALSE]

\* value of cli while no Initialize call and no reader is followed
NoInitializeCall ==
  [ wpc |-> "idle",     \* Initialize: "idle" | "login" | "host" | "load" |
                        \* "create" | "sender" | "done"
    calls |-> 0,        \* Initialize calls made
    r |-> [failAt |-> "none", loaded |-> {}, token |-> "token",
           hostID |-> "10084"],               \* answers of the server
    ran |-> <<>>,       \* steps of the call begun so far
    req |-> [asked |-> FALSE, keys |-> <<>>, from |-> {}],
                        \* createMissingItems: item.create was requested,
                        \* for which keys, and the map it compared with
    ok |-> FALSE,       \* the last Initialize call returned nil
    before |-> {},      \* item map when the call in progress began
    good |-> NewClient, \* client as the last successful call left it
    rpc |-> "idle",     \* reader: "idle" | "locked" | "read"
    seen |-> {},        \* item map the reader translated from
    seenAt |-> "idle",  \* position of Initialize when the reader read
    racy |-> {} ]       \* fields written while the reader held the read lock

itemsToCreate_none(items) == <<>>

itemsToCreate_all(items) == CatalogKeys

\* createMissingItems: catalog keys absent from the loaded map
itemsToCreate(items) == SelectSeq(CatalogKeys, LAMBDA k : k \notin items)

\* Client.Login: user.login; the token is stored only on success.  A context
\* that is already done makes the HTTP request fail.
Login(cl, done, r) ==
  IF done \/ r.failAt = "login"
  THEN [client |-> cl, ok |-> FALSE]
  ELSE [client |-> [cl EXCEPT !.authToken = r.token], ok |-> TRUE]

findHost_acceptsEmpty(cl, r) ==
  IF r.failAt = "host"
  THEN [client |-> cl, ok |-> FALSE]
  ELSE [client |-> [cl EXCEPT !.hostID = r.hostID, !.hostName = ZabbixHost],
        ok |-> TRUE]

\* Client.findHost: host.get; a failed request and an empty host list both
\* return an error before hostID and hostName are written
findHost(cl, r) ==
  IF r.failAt \in {"host", "hostEmpty"}
  THEN [client |-> cl, ok |-> FALSE]
  ELSE [client |-> [cl EXCEPT !.hostID = r.hostID, !.hostName = ZabbixHost],
        ok |-> TRUE]

loadItems_merges(cl, r) ==
  IF r.failAt = "load"
  THEN [client |-> cl, ok |-> FALSE]
  ELSE [client |-> [cl EXCEPT !.items = cl.items \cup r.loaded], ok |-> TRUE]

loadItems_ignoresError(cl, r) ==
  [client |-> [cl EXCEPT !.items = r.loaded], ok |-> TRUE]

\* Client.loadItems: item.get; the map is replaced by the items reported
loadItems(cl, r) ==
  IF r.failAt = "load"
  THEN [client |-> cl, ok |-> FALSE]
  ELSE [client |-> [cl EXCEPT !.items = r.loaded], ok |-> TRUE]

\* number of identifiers in the answer to item.create for n requested items
CreatedCount(n, r) == IF r.failAt = "createCount" THEN n - 1 ELSE n

createMissingItems_noCountCheck(cl, r) ==
  LET toCreate == itemsToCreate(cl.items)
      n == CreatedCount(Len(toCreate), r)
  IN IF Len(toCreate) = 0
     THEN [client |-> cl, ok |-> TRUE, requested |-> FALSE, keys |-> <<>>]
     ELSE IF r.failAt = "create"
     THEN [client |-> cl, ok |-> FALSE, requested |-> TRUE, keys |-> toCreate]
     ELSE [client |-> [cl EXCEPT !.items = cl.items \cup
                                  {toCreate[i] : i \in 1..n}],
           ok |-> TRUE, requested |-> TRUE, keys |-> toCreate]

\* Client.createMissingItems: nothing to create returns at once; otherwise
\* item.create, and the returned identifiers are merged only when their
\* number equals the number of items requested
createMissingItems(cl, r) ==
  LET toCreate == itemsToCreate(cl.items)
      n == CreatedCount(Len(toCreate), r)
  IN IF Len(toCreate) = 0
     THEN [client |-> cl, ok |-> TRUE, requested |-> FALSE, keys |-> <<>>]
     ELSE IF r.failAt = "create" \/ n # Len(toCreate)
     THEN [client |-> cl, ok |-> FALSE, requested |-> TRUE, keys |-> toCreate]
     ELSE [client |-> [cl EXCEPT !.items = cl.items \cup
                                  {toCreate[i] : i \in 1..n}],
           ok |-> TRUE, requested |-> TRUE, keys |-> toCreate]

\* Client.Initialize: Login, findHost, loadItems, createMissingItems and the
\* sender set-up, each step run only after the previous one succeeded.
\* r is what the server answers; log lists the JSON-RPC methods requested.
Initialize(cl, done, r) ==
  LET s1 == Login(cl, done, r) IN
  IF ~s1.ok
  THEN [client |-> s1.client, ok |-> FALSE, log |-> <<"user.login">>]
  ELSE LET s2 == findHost(s1.client, r) IN
  IF ~s2.ok
  THEN [client |-> s2.client, ok |-> FALSE,
        log |-> <<"user.login", "host.get">>]
  ELSE LET s3 == loadItems(s2.client, r) IN
  IF ~s3.ok
  THEN [client |-> s3.client, ok |-> FALSE,
        log |-> <<"user.login", "host.get", "item.get">>]
  ELSE LET s4 == createMissingItems(s3.client, r)
           log4 == IF s4.requested
                   THEN <<"user.login", "host.get", "item.get", "item.create">>
                   ELSE <<"user.login", "host.get", "item.get">> IN
  IF ~s4.ok
  THEN [client |-> s4.client, ok |-> FALSE, log |-> log4]
  ELSE IF r.failAt = "url"
  THEN [client |-> s4.client, ok |-> FALSE, log |-> log4]
  ELSE [client |-> [s4.client EXCEPT !.sender = TRUE], ok |-> TRUE,
        log |-> log4]

\* the MetricSet of a Collect made at time t whose goroutines of the
\* categories in written have stored their structure: the fields of the
\* other categories keep the zero value
MetricSetOf(t, written) ==
  [Timestamp |-> t,
   values |-> [c \in Categories |-> IF c \in written THEN Sampled ELSE 0]]

\* fmt.Sprintf("%v", value) of a number
Sprintf(value) == ToString(value)

\* the arguments of the NewMetric call an addMetric call makes for its key,
\* for every addMetric call of convertMetricsToSenderData in order
AddMetricCalls(cl, metrics) ==
  [i \in 1..Len(TranslatorKeys) |->
     [host |-> cl.hostName, key |-> TranslatorKeys[i],
      value |-> Sprintf(metrics.values[KeyCategory(i)]),
      clock |-> metrics.Timestamp]]

convertMetricsToSenderData_unfiltered(cl, metrics) ==
  AddMetricCalls(cl, metrics)

convertMetricsToSenderData_skipsZero(cl, metrics) ==
  SelectSeq(AddMetricCalls(cl, metrics),
            LAMBDA m : m.key \in cl.items /\ m.value # "0")

convertMetricsToSenderData_byHostID(cl, metrics) ==
  LET wire == SelectSeq(AddMetricCalls(cl, metrics),
                        LAMBDA m : m.key \in cl.items)
  IN [i \in 1..Len(wire) |-> [wire[i] EXCEPT !.host = cl.hostID]]

\* convertMetricsToSenderData: one entry per translator key found in items,
\* with the formatted value of its field and the time of the snapshot
convertMetricsToSenderData(cl, metrics) ==
  SelectSeq(AddMetricCalls(cl, metrics), LAMBDA m : m.key \in cl.items)

\* value of tr while no translation has been made
NoTranslation ==
  [ tpc |-> "idle",      \* "idle" | "done": a translation has returned and
                         \* its list is being sent
    metrics |-> MetricSetOf(0, {}),  \* the snapshot the caller holds
    n |-> 0,             \* translations made (2 stands for two or more)
    at |-> NewClient,    \* the client when the last translation was made
    of |-> MetricSetOf(0, {}),       \* the snapshot it translated
    wire |-> <<>>,       \* the list it returned
    lastAt |-> NewClient,            \* the same for the translation before
    lastOf |-> MetricSetOf(0, {}),
    lastWire |-> <<>> ]

\* t after the client cl has translated the snapshot t.metrics
Translated(t, cl) ==
  [ tpc |-> "done", metrics |-> t.metrics,
    n |-> IF t.n = 0 THEN 1 ELSE 2,
    at |-> cl, of |-> t.metrics,
    wire |-> convertMetricsToSenderData(cl, t.metrics),
    lastAt |-> t.at, lastOf |-> t.of, lastWire |-> t.wire ]

SkipsSend_never(wire) == FALSE

\* len(senderMetrics) == 0: SendMetrics returns nil without calling the sender
SkipsSend(wire) == Len(wire) = 0

\* Client.SendMetrics wraps the sender's error
WrapSendErr(m) == "failed to send metrics via sender: " \o m

\* ------------------------------------------------------------ the sender
\* Byte strings are sequences of numbers in 0..255.

\* "ZBXD\x01"
senderHeader == <<90, 66, 88, 68, 1>>

RECURSIVE PutUint64Bytes(_, _)
\* the k low-order bytes of n, least significant first
PutUint64Bytes(n, k) ==
  IF k = 0 THEN <<>> ELSE <<n % 256>> \o PutUint64Bytes(n \div 256, k - 1)

PutUint64_bigEndian(n) ==
  [i \in 1..senderDataLen |->
     PutUint64Bytes(n, senderDataLen)[senderDataLen + 1 - i]]

\* binary.LittleEndian.PutUint64 into a buffer of senderDataLen bytes
PutUint64(n) == PutUint64Bytes(n, senderDataLen)

RECURSIVE Uint64(_)
\* binary.LittleEndian.Uint64
Uint64(b) == IF b = <<>> THEN 0 ELSE Head(b) + 256 * Uint64(Tail(b))

\* Sender.buildPacket: header, little-endian length, payload
buildPacket(data) == senderHeader \o PutUint64(Len(data)) \o data

\* make([]byte, n) after a Read that stored the bytes b at its front, for
\* the short buffers of the header and of the length
Fill(n, b) == [i \in 1..n |-> IF i <= Len(b) THEN b[i] ELSE 0]

RECURSIVE StripZeros(_)
\* b without its trailing zero bytes
StripZeros(b) ==
  IF b # <<>> /\ b[Len(b)] = 0 THEN StripZeros(SubSeq(b, 1, Len(b) - 1)) ELSE b

\* a byte slice of length n whose first bytes are b and whose other bytes
\* are zero (the payload buffer can be 1 MiB long, so its zero tail is kept
\* as a length only)
Slice(n, b) == [len |-> n, bytes |-> StripZeros(b)]

\* the slice that holds exactly the byte string b
SliceOf(b) == Slice(Len(b), b)

\* numbers of bytes one conn.Read into a buffer of n bytes can return
\* without error when avail bytes of the response have not been read yet:
\* at least one byte and at most what is there, or 0 for an empty buffer
ReadCounts(n, avail) ==
  IF n = 0 THEN {0} ELSE 1..(IF n < avail THEN n ELSE avail)

HeaderOK_magicOnly(header) == SubSeq(header, 1, 4) = SubSeq(senderHeader, 1, 4)

\* bytes.Equal(header, []byte(senderHeader))
HeaderOK(header) == header = senderHeader

\* dataLen > 1024*1024
TooLarge(dataLen) == dataLen > MaxResponseLen

\* JSON documents are abbreviated to one byte: "s" stands for
\* {"response":"success",...} and "f" for {"response":"failed",...}; any
\* other byte string does not parse.  The value of json.Unmarshal's
\* SenderResponse.Response, or "invalid" when Unmarshal fails.
ResponseField(slice) ==
  IF slice = SliceOf(<<115>>) THEN "success"
  ELSE IF slice = SliceOf(<<102>>) THEN "failed"
  ELSE "invalid"

\* what SendData returns ("" is nil) when sendPacket returned (resp, err)
SendDataResult(err, resp) ==
  IF err # "" THEN "failed to send packet: " \o err
  ELSE IF ResponseField(resp) = "invalid" THEN "failed to parse sender response"
  ELSE IF ResponseField(resp) # "success" THEN "zabbix sender error"
  ELSE ""

\* Sender.Send, which Client.SendMetrics calls, is not among the sources;
\* after the sender contract of the specification (frame the payload, one
\* connection, return the response bytes or an error) it transmits the frame
\* of buildPacket through sendPacket and returns what sendPacket returns.
Send(payload) == buildPacket(payload)

\* what SendMetrics returns when Send returned (resp, err): the response is
\* discarded
SendMetricsResult(err, resp) == IF err # "" THEN WrapSendErr(err) ELSE ""

\* a response whose payload has not been read
NoResponse == Slice(0, <<>>)

\* a frame the server has not sent
NoFrame == [hdr |-> <<>>, declared |-> 0, body |-> <<>>]

\* value of snd while no call is followed
NoCall ==
  [ op |-> "none",        \* "SendMetrics" | "SendData"
    pc |-> "idle",        \* "call" | "dial" | "deadline" | "write" |
                          \* "header" | "length" | "payload" | "done"
    ndata |-> 0,          \* len(data) of SendData
    wire |-> <<>>,        \* senderMetrics of SendMetrics
    data |-> <<>>,        \* the payload handed to buildPacket
    packet |-> <<>>,      \* the frame handed to sendPacket
    frame |-> NoFrame,    \* the frame the server answers with
    stream |-> <<>>,      \* bytes of the answer not yet read
    dataLen |-> 0,        \* dataLen of readResponse
    allocated |-> FALSE,  \* the payload buffer has been made
    reads |-> <<>>,       \* the conn.Read calls made: buffer and bytes
                          \* returned (-1 when Read returned an error)
    dialed |-> 0,         \* DialContext calls
    opened |-> 0,         \* connections established
    open |-> FALSE,       \* the connection is open
    err |-> "",           \* error returned by sendPacket ("" is nil)
    resp |-> NoResponse,  \* response returned by sendPacket
    result |-> "" ]       \* error returned by the call ("" is nil)

connAfterReturn_leak(open) == open

\* defer conn.Close(): the connection is closed when sendPacket returns
connAfterReturn(open) == FALSE

\* ----------------------------------------------------------- scheduler
isAuthError_any(err) == err # ""

\* Scheduler.isAuthError, with Go's precedence (&& binds tighter than ||)
isAuthError(err) ==
  err # "" /\ ( err = "Session terminated, re-login, please."
                \/ err = "Not authorized"
                \/ ( err = "Invalid params"
                     /\ (err = "Session terminated"
                         \/ err = "invalid auth token") ) )

RetryLoopCond_inclusive(a, max) == a <= max

RetryLoopCond_doWhile(a, max) == a = 0 \/ a < max

\* attempt < s.config.MaxRetries
RetryLoopCond(a, max) == a < max

NextBackoff_const(b) == b

\* backoff *= 2
NextBackoff(b) == b * 2

AfterCycle_exitOnFailure(outcome) ==
  IF outcome \in {"exhausted", "collectFailed"} THEN "stopped" ELSE "select"

\* where monitoringLoop continues when collectAndSend has returned
AfterCycle(outcome) == "select"

StartsLoop_always(initOk) == TRUE

\* whether Start launches the monitoring loop, given Initialize's result
StartsLoop(initOk) == initOk

\* Collect: for i := 0; i < 4; i++
CollectLoopCond(i) == i < NumTasks

AllFailed_any(errs) == Cardinality(errs) > 0

\* len(errors) == 4
AllFailed(errs) == Cardinality(errs) = NumTasks

ProceedsToSend_always(res) == TRUE

ProceedsToSend_unlessAllFailed(res) == res # "allFailed"

\* whether collectAndSend goes on to send, given Collect's result
ProceedsToSend(res) == res = "snapshot"

\* the scheduler with no cycle and no history, where Start has returned
\* started ("none" before Start) and monitoringLoop is at position at
SchedulerAt(started, at) ==
  /\ cancelled = FALSE
  /\ startResult = started
  /\ pc = at
  /\ ticks = 0
  /\ cpc = "none"
  /\ deadline = FALSE
  /\ attempt = 0
  /\ backoff = 0
  /\ lastErr = ""
  /\ task = [c \in Categories |-> "idle"]
  /\ results = <<>>
  /\ recvd = 0
  /\ errors = {}
  /\ metricsSet = {}
  /\ collectResult = "none"
  /\ inProgress = 0
  /\ sendAttempts = 0
  /\ initCalls = 0
  /\ waits = <<>>
  /\ translations = 0
  /\ collectCalls = 0
  /\ lastOutcome = "none"
  /\ afterFailure = FALSE
  /\ allTransient = TRUE
  /\ ctxAtCollect = FALSE
  /\ everCollected = FALSE
  /\ everSent = FALSE
  /\ stopInBackoff = FALSE
  /\ ctl = NoInitialize
  /\ dials = 0
  /\ waited = FALSE
  /\ earlyEnd = FALSE

\* the scheduler before Start
SchedulerIdle == SchedulerAt("none", "idle")

Init ==
  /\ maxRetries \in 0..MaxRetriesBound
  /\ client = NewClient
  /\ snd = NoCall
  /\ cli = NoInitializeCall
  /\ tr = NoTranslation
  /\ SchedulerIdle

\* Collect has not returned and a category goroutine has not yet sent its
\* result
ReportsPending ==
  cpc = "collecting" /\ \E c \in Categories : task[c] = "running"

\* Scheduler.Start
Start ==
  /\ startResult = "none"
  /\ \E r \in InitResponses :
       LET res == Initialize(client, cancelled, r) IN
       /\ client' = res.client
       /\ startResult' = IF res.ok THEN "ok" ELSE "error"
       /\ pc' = IF StartsLoop(res.ok) THEN "first" ELSE "idle"
       /\ ctl' = [log |-> res.log, failAt |-> r.failAt,
                  loaded |-> r.loaded]
  /\ UNCHANGED <<maxRetries, cancelled, ticks, cycleVars, collectVars,
                 histVars, dials, snd, cli, tr, waited, earlyEnd>>

\* Scheduler.Stop
Stop ==
  /\ ~cancelled
  /\ cancelled' = TRUE
  /\ stopInBackoff' = (cpc = "backoff")
  /\ UNCHANGED <<maxRetries, startResult, pc, ticks, cycleVars, collectVars,
                 client, inProgress, sendAttempts, initCalls, waits,
                 translations, collectCalls, lastOutcome, afterFailure,
                 allTransient, ctxAtCollect, everCollected, everSent>>
  /\ UNCHANGED netVars

\* Scheduler.Wait returns: the receive from s.ctx.Done() completes
Wait ==
  /\ cancelled
  /\ ~waited
  /\ waited' = TRUE
  /\ UNCHANGED <<schedVars, cycleVars, collectVars, client, histVars, ctl,
                 dials, snd, cli, tr, earlyEnd>>

\* the runtime delivers a tick into ticker.C (dropped when the buffer is
\* full); the ticker exists once monitoringLoop has created it
Tick ==
  /\ pc \in {"cycle", "select"}
  /\ ticks < TickerCap
  /\ ticks' = ticks + 1
  /\ UNCHANGED <<maxRetries, cancelled, startResult, pc, cycleVars,
                 collectVars, client, histVars>>
  /\ UNCHANGED netVars

\* the 30 s timer of the cycle context fires
DeadlineExpires ==
  /\ cpc # "none"
  /\ ~deadline
  /\ deadline' = TRUE
  /\ UNCHANGED <<schedVars, cpc, attempt, backoff, lastErr, collectVars,
                 client, histVars>>
  /\ UNCHANGED netVars

\* entry of collectAndSend up to the start of the four goroutines of Collect
EnterCycle ==
  /\ cpc' = "collecting"
  /\ deadline' = FALSE
  /\ attempt' = 0
  /\ backoff' = 0
  /\ lastErr' = ""
  /\ task' = [c \in Categories |-> "running"]
  /\ results' = <<>>
  /\ recvd' = 0
  /\ errors' = {}
  /\ metricsSet' = {}
  /\ collectResult' = "none"
  /\ inProgress' = inProgress + 1
  /\ sendAttempts' = 0
  /\ initCalls' = 0
  /\ waits' = <<>>
  /\ translations' = 0
  /\ collectCalls' = 1
  /\ lastOutcome' = "none"
  /\ afterFailure' = (lastOutcome \in {"exhausted", "collectFailed"})
  /\ allTransient' = TRUE
  /\ ctxAtCollect' = FALSE
  /\ everCollected' = TRUE
  /\ ctl' = NoInitialize
  /\ dials' = 0
  /\ tr' = NoTranslation
  /\ UNCHANGED <<everSent, stopInBackoff, client, snd, cli, waited, earlyEnd>>

LoopFirst_async ==
  /\ pc = "first"
  /\ pc' = "select"
  /\ EnterCycle
  /\ UNCHANGED <<maxRetries, cancelled, startResult, ticks>>

\* monitoringLoop: the first collectAndSend, made before the select loop
LoopFirst ==
  /\ pc = "first"
  /\ pc' = "cycle"
  /\ EnterCycle
  /\ UNCHANGED <<maxRetries, cancelled, startResult, ticks>>

LoopTick_untimed ==
  /\ pc = "select"
  /\ pc' = "cycle"
  /\ EnterCycle
  /\ UNCHANGED <<maxRetries, cancelled, startResult, ticks>>

\* monitoringLoop: case <-ticker.C
LoopTick ==
  /\ pc = "select"
  /\ ticks > 0
  /\ ticks' = ticks - 1
  /\ pc' = "cycle"
  /\ EnterCycle
  /\ UNCHANGED <<maxRetries, cancelled, startResult>>

\* monitoringLoop: case <-s.ctx.Done()
LoopStop ==
  /\ pc = "select"
  /\ cancelled
  /\ pc' = "stopped"
  /\ UNCHANGED <<maxRetries, cancelled, startResult, ticks, cycleVars,
                 collectVars, client, histVars>>
  /\ UNCHANGED netVars

\* return of collectAndSend to monitoringLoop (the deferred cancel releases
\* the cycle context)
EndCycle(outcome) ==
  /\ cpc' = "none"
  /\ deadline' = FALSE
  /\ pc' = AfterCycle(outcome)
  /\ lastOutcome' = outcome
  /\ inProgress' = inProgress - 1
  /\ UNCHANGED <<maxRetries, cancelled, startResult, ticks>>

\* a category goroutine finishes its sampling and reports into results
TaskFinish ==
  /\ \E c \in Categories, ok \in BOOLEAN :
       /\ task[c] = "running"
       /\ Len(results) < ResultsCap
       /\ task' = [task EXCEPT ![c] = IF ok THEN "ok" ELSE "failed"]
       /\ metricsSet' = IF ok THEN metricsSet \cup {c} ELSE metricsSet
       /\ results' = Append(results, [name |-> c, err |-> ~ok])
  /\ UNCHANGED <<schedVars, cycleVars, recvd, errors, collectResult, client,
                 histVars>>
  /\ UNCHANGED netVars

\* what Collect returns after its fourth receive, and how collectAndSend
\* goes on
CollectDone(res) ==
  /\ collectResult' = res
  /\ ctxAtCollect' = ctxDone
  /\ IF ProceedsToSend(res)
     THEN /\ cpc' = "send"
          /\ attempt' = 0
          /\ backoff' = RetryBackoffBase
          /\ lastErr' = ""
          /\ UNCHANGED <<schedVars, deadline, client, inProgress,
                         sendAttempts, initCalls, waits, translations,
                         collectCalls, lastOutcome, afterFailure, allTransient,
                         everCollected, everSent, stopInBackoff>>
     ELSE /\ EndCycle("collectFailed")
          /\ UNCHANGED <<attempt, backoff, lastErr, client,
                         sendAttempts, initCalls, waits, translations,
                         collectCalls, afterFailure, allTransient,
                         everCollected, everSent, stopInBackoff>>

\* Collect: case res := <-results
CollectRecv ==
  /\ cpc = "collecting"
  /\ Len(results) > 0
  /\ LET res == Head(results)
         errs == IF res.err THEN errors \cup {res.name} ELSE errors
     IN /\ results' = Tail(results)
        /\ errors' = errs
        /\ recvd' = recvd + 1
        /\ UNCHANGED <<task, metricsSet>>
        /\ IF CollectLoopCond(recvd + 1)
           THEN UNCHANGED <<schedVars, cycleVars, collectResult, client,
                            histVars>>
           ELSE CollectDone(IF AllFailed(errs) THEN "allFailed" ELSE "snapshot")
  /\ UNCHANGED netVars

\* Collect: case <-ctx.Done()
CollectCtxDone ==
  /\ cpc = "collecting"
  /\ ctxDone
  /\ UNCHANGED <<task, results, recvd, errors, metricsSet>>
  /\ CollectDone("ctxErr")
  /\ UNCHANGED netVars

\* sendMetricsWithRetry: the backoff timer fires before the context is done
BackoffElapsed ==
  /\ cpc = "backoff"
  /\ ~ctxDone
  /\ waits' = Append(waits, backoff)
  /\ backoff' = NextBackoff(backoff)
  /\ cpc' = "send"
  /\ UNCHANGED <<schedVars, deadline, attempt, lastErr, collectVars, client,
                 inProgress, sendAttempts, initCalls, translations,
                 collectCalls, lastOutcome, afterFailure, allTransient,
                 ctxAtCollect, everCollected, everSent, stopInBackoff>>
  /\ UNCHANGED netVars

\* sendMetricsWithRetry: case <-ctx.Done() of the backoff wait
BackoffCtxDone ==
  /\ cpc = "backoff"
  /\ ctxDone
  /\ EndCycle(IF cancelled THEN "aborted" ELSE "timedOut")
  /\ UNCHANGED <<attempt, backoff, lastErr, collectVars, client,
                 sendAttempts, initCalls, waits, translations, collectCalls,
                 afterFailure, allTransient, ctxAtCollect, everCollected,
                 everSent, stopInBackoff>>
  /\ UNCHANGED netVars

\* one iteration of the retry loop from s.zabbix.SendMetrics on: the send,
\* the classification of its error, the re-initialization and the loop test
SendAttempt ==
  /\ cpc = "send"
  /\ RetryLoopCond(attempt, maxRetries)
  /\ sendAttempts' = sendAttempts + 1
  /\ translations' = translations + 1
  /\ everSent' = TRUE
  /\ tr' = Translated(
              [tr EXCEPT !.metrics = MetricSetOf(CollectTime, metricsSet)],
              client)
  /\ dials' = IF SkipsSend(tr'.wire) THEN dials ELSE dials + 1
  /\ UNCHANGED <<collectVars, backoff, waits, collectCalls,
                 afterFailure, ctxAtCollect, everCollected, stopInBackoff,
                 snd, cli, waited, earlyEnd>>
  /\ \E m \in SenderErrors \cup {""} :
       IF SkipsSend(tr'.wire) \/ m = ""
       THEN /\ EndCycle("ok")
            /\ UNCHANGED <<attempt, lastErr, client, initCalls, allTransient,
                           ctl>>
       ELSE LET err == WrapSendErr(m)
                reinit == isAuthError(err) /\ attempt < maxRetries - 1
            IN /\ lastErr' = err
               /\ allTransient' = (allTransient /\ m \notin AuthPhrases)
               /\ attempt' = attempt + 1
               /\ IF reinit
                  THEN /\ initCalls' = initCalls + 1
                       /\ \E r \in InitResponses :
                            LET res == Initialize(client, ctxDone, r) IN
                            /\ client' = res.client
                            /\ ctl' = [log |-> res.log,
                                       failAt |-> r.failAt,
                                       loaded |-> r.loaded]
                  ELSE UNCHANGED <<initCalls, client, ctl>>
               /\ IF RetryLoopCond(attempt + 1, maxRetries)
                  THEN /\ cpc' = "backoff"
                       /\ UNCHANGED <<schedVars, deadline, inProgress,
                                      lastOutcome>>
                  ELSE EndCycle("exhausted")

\* sendMetricsWithRetry with a retry budget that allows no attempt
SendNoAttempt ==
  /\ cpc = "send"
  /\ ~RetryLoopCond(attempt, maxRetries)
  /\ EndCycle("exhausted")
  /\ UNCHANGED <<attempt, backoff, lastErr, collectVars, client,
                 sendAttempts, initCalls, waits, translations, collectCalls,
                 afterFailure, allTransient, ctxAtCollect, everCollected,
                 everSent, stopInBackoff>>
  /\ UNCHANGED netVars

Next ==
  \/ Start
  \/ Stop
  \/ Wait
  \/ Tick
  \/ DeadlineExpires
  \/ LoopFirst
  \/ LoopTick
  \/ LoopStop
  \/ TaskFinish
  \/ CollectRecv
  \/ CollectCtxDone
  \/ BackoffElapsed
  \/ BackoffCtxDone
  \/ SendAttempt
  \/ SendNoAttempt

Spec == Init /\ [][Next]_vars

\* Scheduling the code relies on: the goroutine of monitoringLoop keeps
\* running, timers (ticker, backoff, cycle deadline) fire, and blocking
\* calls return.  Stop, Start and the category samplings are not forced.
Fairness ==
  /\ WF_vars(Tick)
  /\ WF_vars(DeadlineExpires)
  /\ WF_vars(LoopFirst)
  /\ WF_vars(LoopTick)
  /\ WF_vars(LoopStop)
  /\ WF_vars(CollectRecv)
  /\ WF_vars(CollectCtxDone)
  /\ WF_vars(BackoffElapsed)
  /\ WF_vars(BackoffCtxDone)
  /\ WF_vars(SendAttempt)
  /\ WF_vars(SendNoAttempt)

FairSpec == Spec /\ Fairness

\* ------------------------------------------- one call of the data plane
\* Clients on which SendMetrics is followed: a new client, and initialized
\* clients with the item maps of DrawnItemSets.
DrawnClients ==
  {NewClient} \cup
  { [authToken |-> "token", hostID |-> "10084", hostName |-> ZabbixHost,
     items |-> it, sender |-> TRUE] : it \in DrawnItemSets }

\* bytes of the answer f as the server puts them on the connection
FrameBytes(f) == f.hdr \o PutUint64(f.declared) \o f.body

SenderInit ==
  /\ maxRetries = DefaultMaxRetries
  /\ SchedulerIdle
  /\ cli = NoInitializeCall
  /\ tr = NoTranslation
  /\ \E o \in {"SendMetrics", "SendData"}, n \in 0..1, cl \in DrawnClients :
       /\ o = "SendData" => cl = NewClient
       /\ o = "SendMetrics" => n = 0
       /\ client = cl
       /\ snd = [NoCall EXCEPT !.op = o, !.pc = "call", !.ndata = n]

\* return of sendPacket with (resp, err) and of the call that made it
Return(s, err, resp) ==
  [s EXCEPT !.pc = "done", !.open = connAfterReturn(s.open),
            !.err = err, !.resp = resp,
            !.result = IF s.op = "SendData" THEN SendDataResult(err, resp)
                       ELSE SendMetricsResult(err, resp)]

\* Client.SendMetrics up to the call of the sender
SendMetricsCall ==
  /\ snd.op = "SendMetrics" /\ snd.pc = "call"
  /\ LET wire == convertMetricsToSenderData(
                   client, MetricSetOf(CollectTime, Categories)) IN
     IF SkipsSend(wire)
     THEN snd' = [snd EXCEPT !.wire = wire, !.pc = "done"]
     ELSE \E payload \in RequestPayloads :
            snd' = [snd EXCEPT !.wire = wire, !.data = payload,
                               !.packet = Send(payload), !.pc = "dial"]
  /\ UNCHANGED <<schedVars, cycleVars, collectVars, client, histVars, ctl,
                 dials, cli, tr, waited, earlyEnd>>

\* Sender.SendData up to the call of sendPacket
SendDataCall ==
  /\ snd.op = "SendData" /\ snd.pc = "call"
  /\ IF snd.ndata = 0
     THEN snd' = [snd EXCEPT !.pc = "done"]
     ELSE \E jsonData \in RequestPayloads :
            snd' = [snd EXCEPT !.data = jsonData,
                               !.packet = buildPacket(jsonData), !.pc = "dial"]
  /\ UNCHANGED <<schedVars, cycleVars, collectVars, client, histVars, ctl,
                 dials, cli, tr, waited, earlyEnd>>

\* sendPacket: dialer.DialContext
Dial ==
  /\ snd.pc = "dial"
  /\ \E ok \in BOOLEAN :
       LET s1 == [snd EXCEPT !.dialed = @ + 1] IN
       IF ok
       THEN snd' = [s1 EXCEPT !.opened = @ + 1, !.open = TRUE,
                              !.pc = "deadline"]
       ELSE snd' = Return(s1, "failed to connect to zabbix server", NoResponse)
  /\ UNCHANGED <<schedVars, cycleVars, collectVars, client, histVars, ctl,
                 dials, cli, tr, waited, earlyEnd>>

\* sendPacket: conn.SetDeadline
SetDeadline ==
  /\ snd.pc = "deadline"
  /\ \E ok \in BOOLEAN :
       IF ok
       THEN snd' = [snd EXCEPT !.pc = "write"]
       ELSE snd' = Return(snd, "failed to set connection deadline", NoResponse)
  /\ UNCHANGED <<schedVars, cycleVars, collectVars, client, histVars, ctl,
                 dials, cli, tr, waited, earlyEnd>>

\* sendPacket: conn.Write; the server answers a written packet with some frame
Write ==
  /\ snd.pc = "write"
  /\ \/ snd' = Return(snd, "failed to write packet", NoResponse)
     \/ \E f \in ServerFrames :
          snd' = [snd EXCEPT !.frame = f, !.stream = FrameBytes(f),
                             !.pc = "header"]
  /\ UNCHANGED <<schedVars, cycleVars, collectVars, client, histVars, ctl,
                 dials, cli, tr, waited, earlyEnd>>

\* snd after a conn.Read into buffer buf that returned k bytes
AfterRead(buf, k) ==
  [snd EXCEPT !.stream = SubSeq(@, k + 1, Len(@)),
              !.reads = Append(@, [buf |-> buf, n |-> k])]

\* snd after a conn.Read into buffer buf that returned an error
AfterReadError(buf) ==
  [snd EXCEPT !.reads = Append(@, [buf |-> buf, n |-> -1])]

\* readResponse: the header is read and compared
ReadHeader ==
  /\ snd.pc = "header"
  /\ \/ snd' = Return(AfterReadError("header"), "failed to read header",
                      NoResponse)
     \/ \E k \in ReadCounts(5, Len(snd.stream)) :
          LET header == Fill(5, SubSeq(snd.stream, 1, k)) IN
          IF HeaderOK(header)
          THEN snd' = [AfterRead("header", k) EXCEPT !.pc = "length"]
          ELSE snd' = Return(AfterRead("header", k),
                             "invalid response header", NoResponse)
  /\ UNCHANGED <<schedVars, cycleVars, collectVars, client, histVars, ctl,
                 dials, cli, tr, waited, earlyEnd>>

\* readResponse: the length is read, decoded and checked, and the payload
\* buffer is made
ReadLength ==
  /\ snd.pc = "length"
  /\ \/ snd' = Return(AfterReadError("length"), "failed to read data length",
                      NoResponse)
     \/ \E k \in ReadCounts(senderDataLen, Len(snd.stream)) :
          LET lenBytes == Fill(senderDataLen, SubSeq(snd.stream, 1, k))
              dataLen == Uint64(lenBytes)
          IN IF TooLarge(dataLen)
             THEN snd' = Return([AfterRead("length", k) EXCEPT
                                   !.dataLen = dataLen],
                                "response data too large", NoResponse)
             ELSE snd' = [AfterRead("length", k) EXCEPT
                            !.dataLen = dataLen, !.allocated = TRUE,
                            !.pc = "payload"]
  /\ UNCHANGED <<schedVars, cycleVars, collectVars, client, histVars, ctl,
                 dials, cli, tr, waited, earlyEnd>>

\* readResponse: the payload is read and returned
ReadPayload ==
  /\ snd.pc = "payload"
  /\ \/ /\ snd.dataLen > 0
        /\ snd' = Return(AfterReadError("payload"),
                         "failed to read response data", NoResponse)
     \/ \E k \in ReadCounts(snd.dataLen, Len(snd.stream)) :
          snd' = Return(AfterRead("payload", k), "",
                        Slice(snd.dataLen, SubSeq(snd.stream, 1, k)))
  /\ UNCHANGED <<schedVars, cycleVars, collectVars, client, histVars, ctl,
                 dials, cli, tr, waited, earlyEnd>>

SenderNext ==
  \/ SendMetricsCall
  \/ SendDataCall
  \/ Dial
  \/ SetDeadline
  \/ Write
  \/ ReadHeader
  \/ ReadLength
  \/ ReadPayload

SenderSpec == SenderInit /\ [][SenderNext]_vars

\* ------------------------------ cycles of a client initialized twice
\* Clients left by a successful Initialize followed by a second Initialize
\* call, which may fail after loadItems has replaced the item map.
RunClients ==
  LET first == Initialize(NewClient, FALSE,
                          [failAt |-> "none", loaded |-> CatalogKeySet,
                           token |-> "token", hostID |-> "10084"]).client
  IN {Initialize(first, FALSE, r).client : r \in InitResponses}

\* the monitoring loop about to make its first cycle with such a client
RunInit ==
  /\ maxRetries \in (0 - NegativeRetriesBound)..MaxRetriesBound
  /\ client \in RunClients
  /\ snd = NoCall
  /\ cli = NoInitializeCall
  /\ tr = NoTranslation
  /\ SchedulerAt("ok", "first")

RunNext ==
  \/ Stop
  \/ Tick
  \/ DeadlineExpires
  \/ LoopFirst
  \/ LoopTick
  \/ LoopStop
  \/ TaskFinish
  \/ CollectRecv
  \/ CollectCtxDone
  \/ BackoffElapsed
  \/ BackoffCtxDone
  \/ SendAttempt
  \/ SendNoAttempt

RunSpec == RunInit /\ [][RunNext]_vars

\* ------------------------------- one Collect call and the end of its context
CollectInit ==
  /\ maxRetries = DefaultMaxRetries
  /\ client = Initialize(NewClient, FALSE,
                         [failAt |-> "none", loaded |-> CatalogKeySet,
                          token |-> "token", hostID |-> "10084"]).client
  /\ snd = NoCall
  /\ cli = NoInitializeCall
  /\ tr = NoTranslation
  /\ SchedulerAt("ok", "first")

\* everything the end of the cycle context leaves alone
aroundContext ==
  <<maxRetries, startResult, pc, ticks, cpc, attempt, backoff, lastErr,
    collectVars, client, histVars, ctl, dials, snd, cli, tr, waited>>

\* the 30 s timer of the cycle context fires while Collect runs
DeadlineExpiresInCollect ==
  /\ cpc = "collecting"
  /\ ~deadline
  /\ deadline' = TRUE
  /\ earlyEnd' = (earlyEnd \/ ReportsPending)
  /\ UNCHANGED <<cancelled, aroundContext>>

\* Scheduler.Stop while Collect runs
StopInCollect ==
  /\ cpc = "collecting"
  /\ ~cancelled
  /\ cancelled' = TRUE
  /\ earlyEnd' = (earlyEnd \/ ReportsPending)
  /\ UNCHANGED <<deadline, aroundContext>>

CollectNext ==
  \/ LoopFirst
  \/ DeadlineExpiresInCollect
  \/ StopInCollect
  \/ TaskFinish
  \/ CollectRecv
  \/ CollectCtxDone

CollectSpec == CollectInit /\ [][CollectNext]_vars

\* --------------------------- translations of a client that is rebuilt
\* Snapshots handed to the translations followed: a complete one, one whose
\* CPU sampling failed, and a complete one of the next cycle.
Snapshots ==
  { MetricSetOf(CollectTime, Categories),
    MetricSetOf(CollectTime, Categories \ {"CPU"}),
    MetricSetOf(CollectTime + CollectInterval, Categories) }

\* Answers of the server to the Initialize calls made between translations.
TranslateResponses ==
  { r \in ClientResponses :
      /\ r.failAt \in {"none", "create"}
      /\ r.loaded \in {CatalogKeySet, {"system.cpu.util[,idle]"}} }

TranslateInit ==
  /\ maxRetries = DefaultMaxRetries
  /\ client = NewClient
  /\ snd = NoCall
  /\ cli = NoInitializeCall
  /\ \E m \in Snapshots : tr = [NoTranslation EXCEPT !.metrics = m]
  /\ SchedulerIdle

\* everything but the client and the translations followed
aroundTranslation ==
  <<schedVars, cycleVars, collectVars, histVars, ctl, dials, snd, cli, waited, earlyEnd>>

\* a call of Client.Initialize between two SendMetrics calls
Reinitialize ==
  /\ tr.tpc = "idle"
  /\ \E r \in TranslateResponses :
       client' = Initialize(client, FALSE, r).client
  /\ UNCHANGED <<tr, aroundTranslation>>

\* the next Collect hands a new snapshot to the caller
NextSnapshot ==
  /\ tr.tpc = "idle"
  /\ \E m \in Snapshots : tr' = [tr EXCEPT !.metrics = m]
  /\ UNCHANGED <<client, aroundTranslation>>

\* SendMetrics: senderMetrics := c.convertMetricsToSenderData(metrics)
Translate ==
  /\ tr.tpc = "idle"
  /\ tr' = Translated(tr, client)
  /\ UNCHANGED <<client, aroundTranslation>>

\* SendMetrics returns
SendMetricsReturn ==
  /\ tr.tpc = "done"
  /\ tr' = [tr EXCEPT !.tpc = "idle"]
  /\ UNCHANGED <<client, aroundTranslation>>

TranslateNext ==
  \/ Reinitialize
  \/ NextSnapshot
  \/ Translate
  \/ SendMetricsReturn

TranslateSpec == TranslateInit /\ [][TranslateNext]_vars

\* ------------------- Initialize calls next to a reader of the item map
\* everything but the client and the calls followed on it
aroundClient ==
  <<schedVars, cycleVars, collectVars, histVars, ctl, dials, snd, tr,
    waited, earlyEnd>>

ClientInit ==
  /\ maxRetries = DefaultMaxRetries
  /\ client = NewClient
  /\ snd = NoCall
  /\ cli = NoInitializeCall
  /\ tr = NoTranslation
  /\ SchedulerIdle

\* the reader holds itemsMutex in read mode
ReaderHolds == cli.rpc # "idle"

\* fields written by a step, added to racy when the reader holds the read lock
RacyWrite(fields) == IF ReaderHolds THEN cli.racy \cup fields ELSE cli.racy

\* cli when Initialize returns an error
InitializeFailed(step) ==
  [cli EXCEPT !.wpc = "done", !.ok = FALSE, !.ran = Append(@, step)]

\* a call of Client.Initialize begins; the server's answers are r
InitializeCall ==
  /\ cli.wpc \in {"idle", "done"}
  /\ cli.calls < MaxInitCalls
  /\ \E r \in ClientResponses :
       cli' = [cli EXCEPT !.wpc = "login", !.calls = @ + 1, !.r = r,
                          !.ok = FALSE, !.before = client.items,
                          !.ran = <<>>,
                          !.req = NoInitializeCall.req]
  /\ UNCHANGED <<client, aroundClient>>

\* Initialize: c.Login; the token is written under authMutex, which the
\* reader does not take
InitLogin ==
  /\ cli.wpc = "login"
  /\ LET s1 == Login(client, FALSE, cli.r) IN
     IF s1.ok
     THEN /\ client' = s1.client
          /\ cli' = [cli EXCEPT !.wpc = "host", !.ran = Append(@, "login"),
                                !.racy = RacyWrite({"authToken"})]
     ELSE /\ cli' = InitializeFailed("login")
          /\ UNCHANGED client
  /\ UNCHANGED aroundClient

\* Initialize: c.findHost; hostID and hostName are written with no lock held
InitFindHost ==
  /\ cli.wpc = "host"
  /\ LET s2 == findHost(client, cli.r) IN
     IF s2.ok
     THEN /\ client' = s2.client
          /\ cli' = [cli EXCEPT !.wpc = "load", !.ran = Append(@, "host"),
                                !.racy = RacyWrite({"hostID", "hostName"})]
     ELSE /\ cli' = InitializeFailed("host")
          /\ UNCHANGED client
  /\ UNCHANGED aroundClient

\* Initialize: c.loadItems; the map is replaced under itemsMutex.Lock, which
\* waits for the reader to unlock
InitLoadItems ==
  /\ cli.wpc = "load"
  /\ LET s3 == loadItems(client, cli.r) IN
     IF s3.ok
     THEN /\ ~ReaderHolds
          /\ client' = s3.client
          /\ cli' = [cli EXCEPT !.wpc = "create", !.ran = Append(@, "load")]
     ELSE /\ cli' = InitializeFailed("load")
          /\ UNCHANGED client
  /\ UNCHANGED aroundClient

\* Initialize: c.createMissingItems; the created items are merged into the
\* map under itemsMutex.Lock
InitCreateMissingItems ==
  /\ cli.wpc = "create"
  /\ LET s4 == createMissingItems(client, cli.r)
         req == [asked |-> s4.requested, keys |-> s4.keys,
                 from |-> client.items] IN
     IF s4.ok
     THEN /\ s4.requested => ~ReaderHolds
          /\ client' = s4.client
          /\ cli' = [cli EXCEPT !.wpc = "sender", !.ran = Append(@, "create"),
                                !.req = req]
     ELSE /\ cli' = [InitializeFailed("create") EXCEPT !.req = req]
          /\ UNCHANGED client
  /\ UNCHANGED aroundClient

\* Initialize: getZabbixServerHost and c.sender = NewSender(...), written
\* with no lock held; Initialize returns nil
InitSender ==
  /\ cli.wpc = "sender"
  /\ IF cli.r.failAt = "url"
     THEN /\ cli' = InitializeFailed("sender")
          /\ UNCHANGED client
     ELSE /\ client' = [client EXCEPT !.sender = TRUE]
          /\ cli' = [cli EXCEPT !.wpc = "done", !.ok = TRUE,
                                !.ran = Append(@, "sender"),
                                !.good = [client EXCEPT !.sender = TRUE],
                                !.racy = RacyWrite({"sender"})]
  /\ UNCHANGED aroundClient

\* convertMetricsToSenderData: c.itemsMutex.RLock()
ReaderLock ==
  /\ cli.rpc = "idle"
  /\ cli' = [cli EXCEPT !.rpc = "locked"]
  /\ UNCHANGED <<client, aroundClient>>

\* convertMetricsToSenderData: the addMetric calls read c.items
ReaderTranslate ==
  /\ cli.rpc = "locked"
  /\ cli' = [cli EXCEPT !.rpc = "read", !.seen = client.items,
                        !.seenAt = cli.wpc]
  /\ UNCHANGED <<client, aroundClient>>

\* convertMetricsToSenderData: the deferred c.itemsMutex.RUnlock()
ReaderUnlock ==
  /\ cli.rpc = "read"
  /\ cli' = [cli EXCEPT !.rpc = "idle", !.seen = {}, !.seenAt = "idle"]
  /\ UNCHANGED <<client, aroundClient>>

ClientNext ==
  \/ InitializeCall
  \/ InitLogin
  \/ InitFindHost
  \/ InitLoadItems
  \/ InitCreateMissingItems
  \/ InitSender
  \/ ReaderLock
  \/ ReaderTranslate
  \/ ReaderUnlock

ClientSpec == ClientInit /\ [][ClientNext]_vars

\* ------------------------------------------------------------- properties
\* waits of a retry loop that ran n attempts: base, 2*base, 4*base, ...
ExpectedWaits(n) == [j \in 1..(n - 1) |-> RetryBackoffBase * 2^(j - 1)]

LoopAlive == pc # "idle" /\ (pc = "stopped" => cancelled)
SendFailedEveryTime == lastOutcome \in {"exhausted", "aborted", "timedOut"}

\* C1 as stated: a cycle in which every send attempt failed with a
\* non-authentication error has made exactly MaxRetries attempts, with waits
\* base * 2^(k-2) before attempt k, and the loop keeps running.
C1_Original ==
  (SendFailedEveryTime /\ allTransient) =>
     /\ sendAttempts = maxRetries
     /\ waits = ExpectedWaits(maxRetries)
     /\ LoopAlive

\* C1 amended: the same, provided the cycle context (Stop or the 30 s cycle
\* deadline) is not done during a backoff wait; at any moment of the retry
\* loop the waits made so far are base, 2*base, ... with none before the
\* first attempt, and with MaxRetries = 3 the cycle ends after 3 attempts
\* and the waits 1 s, 2 s.
C1_ExactAttemptsAndWaits ==
  /\ sendAttempts <= maxRetries
  /\ \A j \in 1..Len(waits) : waits[j] = RetryBackoffBase * 2^(j - 1)
  /\ cpc = "send" => Len(waits) = sendAttempts
  /\ cpc = "backoff" => Len(waits) = sendAttempts - 1
  /\ (lastOutcome = "exhausted" /\ allTransient) =>
        /\ sendAttempts = maxRetries
        /\ waits = ExpectedWaits(maxRetries)
        /\ maxRetries = DefaultMaxRetries => waits = <<1, 2>>
        /\ LoopAlive

C1_Witness ==
  /\ lastOutcome = "exhausted"
  /\ allTransient
  /\ maxRetries = DefaultMaxRetries
  /\ sendAttempts = 3
  /\ waits = <<1, 2>>
  /\ pc = "select"

\* C2: when attempt 1 of 3 fails with an authentication-expired error
\* (a sender error carrying one of the known phrases), Initialize has been
\* invoked exactly once when attempt 2 is waited for and made.
C2_ReinitBeforeSecondAttempt ==
  ( /\ maxRetries = DefaultMaxRetries
    /\ cpc \in {"backoff", "send"}
    /\ attempt = 1
    /\ \E m \in AuthPhrases : lastErr = WrapSendErr(m) )
  => initCalls = 1

\* C3: an error of SendMetrics whose sender message is one of the known
\* authentication phrases is classified by isAuthError, and when attempts
\* remain Initialize has been called before the next retry.
C3_AuthPhrasesClassified ==
  \A m \in AuthPhrases :
     lastErr = WrapSendErr(m) =>
        /\ isAuthError(lastErr)
        /\ cpc = "backoff" => initCalls >= 1

\* C5: when Initialize fails in Start, Start returns an error, the
\* monitoring loop is not started and no Collect and no SendMetrics call is
\* ever made.
C5_FailedStartRunsNothing ==
  startResult = "error" =>
     /\ pc = "idle"
     /\ cpc = "none"
     /\ inProgress = 0
     /\ ~everCollected
     /\ ~everSent

C5_Witness == startResult = "error" /\ client.authToken # "" /\ ticks = 0

\* C6: once Stop has fired, the select loop of monitoringLoop starts no new
\* collectAndSend, also when a tick is pending.
C6_NoCycleAfterStop ==
  [][(cancelled /\ pc = "select") => pc' # "cycle"]_vars

\* C7: when Stop fires during a backoff wait, the wait ends with the context
\* error without a further SendMetrics or Initialize call in the cycle, and
\* the monitoring loop runs no further cycle.
C7_BackoffAbortEndsRun ==
  /\ [][(cpc = "backoff" /\ stopInBackoff) =>
          /\ cpc' = "backoff" \/ (cpc' = "none" /\ lastOutcome' = "aborted")
          /\ sendAttempts' = sendAttempts
          /\ initCalls' = initCalls]_vars
  /\ [][(lastOutcome = "aborted" /\ stopInBackoff /\ pc = "select")
           => pc' # "cycle"]_vars

\* C8: at most one collectAndSend is in progress, it runs inside the
\* monitoring loop (which takes no tick meanwhile), and at most one tick is
\* pending however long the cycle lasts.
C8_CyclesNeverOverlap ==
  /\ inProgress \in {0, 1}
  /\ inProgress = 1 <=> pc = "cycle"
  /\ cpc # "none" <=> pc = "cycle"
  /\ ticks <= 1

C8_Witness == pc = "cycle" /\ cpc = "backoff" /\ ticks = 1 /\ inProgress = 1

\* C9: when all four category tasks of a cycle fail, Collect has returned an
\* error and the cycle is over with no SendMetrics call, no translation and
\* a single Collect call.
C9_AllFailedSkipsCycle ==
  (collectResult # "none" /\ \A c \in Categories : task[c] = "failed") =>
     /\ collectResult \in {"allFailed", "ctxErr"}
     /\ cpc = "none"
     /\ lastOutcome = "collectFailed"
     /\ sendAttempts = 0
     /\ translations = 0
     /\ collectCalls = 1

C9_Witness ==
  /\ collectResult = "allFailed"
  /\ \A c \in Categories : task[c] = "failed"
  /\ lastOutcome = "collectFailed"
  /\ pc = "select"

\* C10: when the cycle context is not done during the collection, Collect
\* returns an error exactly when all four tasks failed; otherwise it returns
\* a snapshot holding every category that succeeded, and a task that is
\* still running always finds room in the results channel.
C10_CollectErrorIffAllFail ==
  /\ (collectResult # "none" /\ ~ctxAtCollect) =>
        /\ \A c \in Categories : task[c] \in {"ok", "failed"}
        /\ collectResult # "snapshot" <=> \A c \in Categories : task[c] = "failed"
        /\ collectResult = "snapshot" =>
              metricsSet = {c \in Categories : task[c] = "ok"}
  /\ (\E c \in Categories : task[c] = "running") => Len(results) < ResultsCap

C10_Witness ==
  /\ collectResult = "snapshot"
  /\ ~ctxAtCollect
  /\ Cardinality({c \in Categories : task[c] = "failed"}) = 3

\* C4: while Stop has not been called the monitoring loop does not exit, and
\* after a cycle that ended by exhausted send attempts or by a failed
\* collection a later tick starts another cycle (or Stop is called).
C4_LoopSurvivesFailures ==
  /\ [][(pc' = "stopped" /\ pc # "stopped") => cancelled]_vars
  /\ (lastOutcome \in {"exhausted", "collectFailed"})
        ~> (cancelled \/ cpc = "collecting")

C4_Witness == cpc = "collecting" /\ afterFailure /\ ~cancelled
\* whether a method was requested by the recorded Initialize call
Requested(method) == \E i \in 1..Len(ctl.log) : ctl.log[i] = method

\* C19: when the host lookup of the Initialize call made by Start returns an
\* empty list, Start fails, the call has requested nothing after host.get (no
\* item.get, no item.create), no sender is set up, the monitoring loop is not
\* started and no SendMetrics call, hence no data-plane connection, is made.
C19_HostNotFoundStopsInitialize ==
  (ctl.failAt = "hostEmpty" /\ Requested("host.get") /\ initCalls = 0) =>
     /\ startResult = "error"
     /\ ctl.log = <<"user.login", "host.get">>
     /\ ~client.sender
     /\ client.hostID = "" /\ client.items = {}
     /\ pc = "idle" /\ cpc = "none"
     /\ ~everSent /\ dials = 0

C19_Witness ==
  /\ ctl.failAt = "hostEmpty" /\ Requested("host.get")
  /\ startResult = "error" /\ cancelled

\* C20: when item.create of the Initialize call made by Start answers with a
\* number of identifiers different from the number of items requested, Start
\* fails, the item map holds exactly the items loaded by item.get (nothing
\* is merged) and the sender set-up is not run.
C20_CountMismatchMergesNothing ==
  (ctl.failAt = "createCount" /\ Requested("item.create") /\ initCalls = 0) =>
     /\ startResult = "error"
     /\ client.items = ctl.loaded
     /\ ~client.sender
     /\ pc = "idle"

C20_Witness ==
  /\ ctl.failAt = "createCount" /\ Requested("item.create")
  /\ startResult = "error"
  /\ ctl.loaded = {"system.cpu.util[,idle]"}
  /\ client.items = {"system.cpu.util[,idle]"}

\* the call followed in snd has gone through sendPacket and has returned
SentAndReturned == snd.pc = "done" /\ snd.dialed > 0

\* C11: a SendMetrics call that reached the sender returns nil exactly when
\* the response frame was received and its response field is "success".
C11_SuccessIffSuccessResponse ==
  (snd.op = "SendMetrics" /\ SentAndReturned) =>
     (snd.result = "" <=>
        (snd.err = "" /\ ResponseField(snd.resp) = "success"))

\* C12: when the server answers with the frame buildPacket makes of a
\* payload P and readResponse returns a payload, that payload is P.
C12_FrameParseRoundTrip ==
  ( /\ SentAndReturned /\ snd.err = ""
    /\ FrameBytes(snd.frame) = buildPacket(snd.frame.body) ) =>
     snd.resp = SliceOf(snd.frame.body)

\* the conn.Read calls made into buffer buf
ReadsOf(buf) == SelectSeq(snd.reads, LAMBDA r : r.buf = buf)

\* C13: once the length field of a frame that declares more than 1 MiB has
\* been read, the call has failed with the size error, no payload buffer
\* has been made and no payload byte has been read.
C13_OversizedRejectedBeforeAllocation ==
  ( /\ snd.frame.declared > MaxResponseLen
    /\ ReadsOf("length") # <<>> /\ ReadsOf("length")[1].n >= 0 ) =>
     /\ snd.pc = "done"
     /\ snd.err = "response data too large"
     /\ ~snd.allocated
     /\ ReadsOf("payload") = <<>>

\* C14: once the header of an answer whose first five bytes are not the
\* protocol header has been read, the call has failed, and neither the
\* length nor the payload has been read.
C14_BadHeaderRejected ==
  (snd.frame.hdr # senderHeader /\ ReadsOf("header") # <<>>) =>
     /\ snd.pc = "done"
     /\ snd.err \in {"invalid response header", "failed to read header"}
     /\ snd.result # ""
     /\ snd.resp = NoResponse
     /\ ReadsOf("length") = <<>> /\ ReadsOf("payload") = <<>>
     /\ ~snd.allocated

C14_Witness ==
  /\ snd.frame.hdr = <<90, 66, 88, 68, 2>>
  /\ snd.reads = <<[buf |-> "header", n |-> 5]>>
  /\ snd.err = "invalid response header"

\* C15: sendPacket returns a payload only after Read calls that returned
\* exactly 5 header bytes, 8 length bytes and the declared number of
\* payload bytes.
C15_PayloadOnlyAfterFullReads ==
  (SentAndReturned /\ snd.err = "") =>
     /\ Len(snd.reads) = 3
     /\ snd.reads[1] = [buf |-> "header", n |-> 5]
     /\ snd.reads[2] = [buf |-> "length", n |-> senderDataLen]
     /\ snd.reads[3] = [buf |-> "payload", n |-> snd.frame.declared]

\* C16: a call of sendPacket dials once and never again, the connection is
\* open while the call is between the dial and its return, and it is closed
\* when the call has returned, whatever the path.
C16_OneConnectionClosedOnReturn ==
  /\ snd.dialed <= 1 /\ snd.opened <= snd.dialed
  /\ Len(ReadsOf("header")) <= 1 /\ Len(ReadsOf("length")) <= 1
  /\ Len(ReadsOf("payload")) <= 1
  /\ snd.pc \in {"deadline", "write", "header", "length", "payload"} =>
       snd.dialed = 1 /\ snd.opened = 1 /\ snd.open
  /\ (snd.pc = "done" /\ snd.packet # <<>>) => snd.dialed = 1 /\ ~snd.open

C16_Witness ==
  /\ snd.pc = "done" /\ snd.opened = 1 /\ ~snd.open
  /\ snd.err = "response data too large"

\* the set of keys of the translator
TranslatorKeySet == {TranslatorKeys[i] : i \in 1..Len(TranslatorKeys)}

\* keys of the entries of a translation
EmittedKeys(wire) == {wire[i].key : i \in 1..Len(wire)}

\* C17: the translation made by SendMetrics has an entry for a key exactly
\* when the key is a translator key held by the item map, no key twice, and
\* exactly two entries for a map of two translator keys.
C17_TranslationEmitsProvisionedKeys ==
  (snd.op = "SendMetrics" /\ snd.pc # "call") =>
     /\ \A k \in client.items \cup TranslatorKeySet :
          k \in EmittedKeys(snd.wire) <=>
            (k \in TranslatorKeySet /\ k \in client.items)
     /\ EmittedKeys(snd.wire) \subseteq client.items \cap TranslatorKeySet
     /\ \A i, j \in 1..Len(snd.wire) :
          snd.wire[i].key = snd.wire[j].key => i = j
     /\ client.items = {"system.cpu.util[,idle]", "vm.memory.util"} =>
          Len(snd.wire) = 2

C17_Witness ==
  /\ snd.op = "SendMetrics" /\ snd.pc = "done"
  /\ client.items = {"system.cpu.util[,idle]", "vm.memory.util", "agent.ping"}
  /\ EmittedKeys(snd.wire) = {"system.cpu.util[,idle]", "vm.memory.util"}
  /\ Len(snd.wire) = 2

\* C18: when the translation of a SendMetrics call is empty, the call opens
\* no data-plane connection and the cycle has ended as a success after this
\* one call, with no backoff wait and no retry.
C18_EmptyTranslationSkipsSend ==
  (sendAttempts > 0 /\ Len(tr.wire) = 0) =>
     /\ dials = 0
     /\ lastOutcome = "ok" /\ cpc = "none" /\ inProgress = 0
     /\ sendAttempts = 1 /\ translations = 1
     /\ waits = <<>> /\ attempt = 0 /\ lastErr = ""
     /\ initCalls = 0

C18_Witness ==
  /\ client.items = {} /\ client.sender
  /\ sendAttempts = 1 /\ lastOutcome = "ok" /\ dials = 0
  /\ collectResult = "snapshot"

\* C25: when Wait has returned, the monitoring loop has exited (or was never
\* started) and no collect-and-send cycle is in progress.
C25_WaitReturnsAfterLoopExit ==
  waited => (pc \in {"idle", "stopped"} /\ cpc = "none" /\ inProgress = 0)

\* C26: the send attempts of a cycle never exceed MaxRetries, a successful
\* attempt ends the cycle, and after it the counts of send attempts, backoff
\* waits, connections and Initialize calls of the cycle no longer change.
C26_AttemptsBoundedSuccessEnds ==
  /\ [](sendAttempts <= maxRetries)
  /\ [](lastOutcome = "ok" => cpc = "none")
  /\ [][(lastOutcome = "ok" /\ lastOutcome' = "ok") =>
          /\ sendAttempts' = sendAttempts /\ waits' = waits
          /\ initCalls' = initCalls /\ dials' = dials]_vars

C26_Witness ==
  /\ lastOutcome = "ok" /\ maxRetries = 3 /\ sendAttempts = 3
  /\ waits = <<1, 2>> /\ ticks = 1

\* errors SendMetrics returns for the authentication phrases
AuthFailureErrors == {WrapSendErr(m) : m \in AuthPhrases}

\* C27: a step of the retry loop that calls Initialize is a failed send
\* whose error carries an authentication phrase, with an attempt remaining;
\* a transient failure and a failure of the last attempt call nothing.
C27_InitializeOnlyOnAuthFailure ==
  [][initCalls' > initCalls =>
       /\ attempt' = attempt + 1
       /\ lastErr' \in AuthFailureErrors
       /\ attempt' < maxRetries]_vars

C27_Witness ==
  /\ cpc = "backoff" /\ attempt = 1 /\ maxRetries = 3
  /\ lastErr = WrapSendErr("connection refused")
  /\ initCalls = 0 /\ ctl = NoInitialize

\* C28: no send attempt, the first one included, starts in a cycle whose
\* context is done (deadline expired or run-level context cancelled).
C28_NoAttemptAfterDeadline ==
  [][sendAttempts' > sendAttempts => ~ctxDone]_vars

\* C29: in a cycle a translation is made only after Collect has returned a
\* snapshot built from its four results, every send attempt makes its
\* translation, and a connection is attempted only after a translation.
C29_CollectThenTranslateThenSend ==
  /\ translations > 0 =>
       (collectResult = "snapshot" /\ recvd = NumTasks /\ collectCalls = 1)
  /\ cpc \in {"send", "backoff"} => collectResult = "snapshot"
  /\ sendAttempts = translations
  /\ dials <= translations

C29_Witness ==
  /\ collectResult = "snapshot" /\ translations = 2 /\ dials = 2
  /\ cpc = "backoff"

\* C30: the first cycle starts from the loop's entry with no tick delivered
\* or consumed, and every later cycle starts by consuming a tick.
C30_FirstCycleImmediateLaterOnTick ==
  /\ [](pc = "first" => (ticks = 0 /\ ~everCollected))
  /\ [][inProgress' > inProgress =>
          \/ pc = "first" /\ ~everCollected /\ ticks' = ticks
          \/ pc = "select" /\ everCollected /\ ticks > 0
             /\ ticks' = ticks - 1]_vars

C30_Witness ==
  /\ pc = "cycle" /\ cpc = "collecting" /\ afterFailure /\ ticks = 0
  /\ startResult = "ok"

\* C21: when an Initialize call has returned nil, every catalog key is in
\* the item map and a translation has an entry for every translator key.
C21_CatalogProvisionedAfterInitialize ==
  (cli.wpc = "done" /\ cli.ok) =>
     /\ CatalogKeySet \subseteq client.items
     /\ EmittedKeys(convertMetricsToSenderData(
                       client, MetricSetOf(CollectTime, Categories)))
          = TranslatorKeySet
     /\ Len(convertMetricsToSenderData(
               client, MetricSetOf(CollectTime, Categories)))
          = Len(CatalogKeys)
     /\ (cli.rpc = "read" /\ cli.seenAt = "done") =>
          TranslatorKeySet \subseteq cli.seen

C21_Witness ==
  /\ cli.wpc = "done" /\ cli.ok /\ cli.calls = 2
  /\ cli.r.loaded = {"system.cpu.util[,idle]"}
  /\ cli.rpc = "read" /\ cli.seenAt = "done"
  /\ CatalogKeySet \subseteq cli.seen

\* C22: when an Initialize call made after a successful one has returned an
\* error, the client is exactly as the last successful call left it.
C22_FailedReinitLeavesNoPartialState ==
  (cli.wpc = "done" /\ ~cli.ok /\ cli.good.sender) => client = cli.good

\* C23: a reader that translates while an Initialize call is in progress
\* sees the whole map of before the call or the whole map of the call
\* (loaded and created items), never the loaded items alone.
C23_ReaderSeesNoHalfBuiltMap ==
  (cli.rpc = "read" /\ cli.seenAt \notin {"idle", "done"}) =>
     cli.seen \in {cli.before, cli.r.loaded \cup CatalogKeySet}

\* C24: no field of the client is written by Initialize while the reader
\* holds the read lock.
C24_WritesExcludeReaders == cli.racy = {}

\* the steps of Initialize in the order of the code
InitializeSteps == <<"login", "host", "load", "create", "sender">>

\* the step of Initialize that the answer r of the server makes fail
FailingStep(r) ==
  CASE r.failAt = "login" -> "login"
    [] r.failAt \in {"host", "hostEmpty"} -> "host"
    [] r.failAt = "load" -> "load"
    [] r.failAt \in {"create", "createCount"} -> "create"
    [] r.failAt = "url" -> "sender"
    [] OTHER -> "none"

\* C31: the steps of an Initialize call run in the order login, host lookup,
\* item load, item provisioning, endpoint resolution; no step runs after the
\* step the server made fail (provisioning cannot fail when no item is
\* missing); a call that returned an error ended at the failing step and a
\* call that returned nil ran all five.
C31_InitializeStepsInOrder ==
  /\ cli.ran = SubSeq(InitializeSteps, 1, Len(cli.ran))
  /\ \A i \in 1..(Len(cli.ran) - 1) :
       \/ cli.ran[i] # FailingStep(cli.r)
       \/ cli.ran[i] = "create" /\ CatalogKeySet \subseteq cli.r.loaded
  /\ (cli.wpc = "done" /\ ~cli.ok /\ cli.calls > 0) =>
       /\ Len(cli.ran) > 0
       /\ cli.ran[Len(cli.ran)] = FailingStep(cli.r)
  /\ (cli.wpc = "done" /\ cli.ok) => cli.ran = InitializeSteps

C31_Witness ==
  /\ cli.wpc = "done" /\ ~cli.ok
  /\ cli.r.failAt = "load"
  /\ cli.ran = <<"login", "host", "load">>
  /\ cli.calls = 2

\* C32: when createMissingItems has run, it has requested item.create for
\* exactly the catalog keys that were not in the map, each once, and it has
\* made no item.create request when no catalog key was missing.
C32_CreatesExactlyMissingKeys ==
  (Len(cli.ran) >= 4) =>
     LET missing == CatalogKeySet \ cli.req.from IN
     /\ {cli.req.keys[i] : i \in 1..Len(cli.req.keys)} = missing
     /\ Len(cli.req.keys) = Cardinality(missing)
     /\ cli.req.asked <=> missing # {}

C32_Witness ==
  /\ Len(cli.ran) >= 4
  /\ cli.req.from = {"system.cpu.util[,idle]"}
  /\ cli.req.asked
  /\ Len(cli.req.keys) = Len(CatalogKeys) - 1
  /\ cli.ok

C32_WitnessNothingMissing ==
  /\ Len(cli.ran) >= 4
  /\ cli.req.from = CatalogKeySet
  /\ ~cli.req.asked
  /\ cli.r.failAt = "create"
  /\ cli.ok

\* C33: after an Initialize call that returned nil, the item map holds
\* exactly the items the server reported in this call and the items created
\* in this call, so no key that was only in the previous map is left, and
\* the token, the host id and the host name are those of this call.
C33_ReinitializeRebuildsFromScratch ==
  (cli.wpc = "done" /\ cli.ok) =>
     /\ client.items =
          cli.r.loaded \cup {cli.req.keys[i] : i \in 1..Len(cli.req.keys)}
     /\ client.authToken = cli.r.token
     /\ client.hostID = cli.r.hostID
     /\ client.hostName = ZabbixHost

C33_Witness ==
  /\ cli.wpc = "done" /\ cli.ok /\ cli.calls = 2
  /\ "agent.ping" \in cli.before
  /\ "agent.ping" \notin client.items
  /\ cli.r.token = "token2" /\ cli.r.hostID = "10085"

\* C34: the frame built for a payload is the five bytes "ZBXD\x01", then
\* eight bytes holding the length of the payload least significant byte
\* first, then the payload unchanged; it is 13 bytes longer than the payload
\* and its length field read back equals the number of bytes that follow.
C34_FrameLayout ==
  (snd.pc \notin {"idle", "call"} /\ snd.packet # <<>>) =>
     LET packet == snd.packet
         n == Len(snd.data)
     IN /\ Len(packet) = 13 + n
        /\ SubSeq(packet, 1, 5) = <<90, 66, 88, 68, 1>>
        /\ \A i \in 1..8 :
             packet[5 + i] =
               IF i <= 3 THEN (n \div 256^(i - 1)) % 256 ELSE 0
        /\ SubSeq(packet, 14, Len(packet)) = snd.data
        /\ Uint64(SubSeq(packet, 6, 13)) = Len(packet) - 13

C34_Witness ==
  /\ snd.op = "SendData"
  /\ snd.pc = "done"
  /\ Len(snd.data) = LongPayloadLen
  /\ SubSeq(snd.packet, 6, 8) =
       <<LongPayloadLen % 256, LongPayloadLen \div 256, 0>>
  /\ snd.result = ""

\* the last two translations had the same snapshot, item map and host name
SameTranslationInputs ==
  /\ tr.n = 2
  /\ tr.of = tr.lastOf
  /\ tr.at.items = tr.lastAt.items
  /\ tr.at.hostName = tr.lastAt.hostName

C36_TranslatorKeysAreCatalogKeys ==
  /\ {AddMetricCalls(client, tr.metrics)[i].key :
        i \in 1..Len(AddMetricCalls(client, tr.metrics))} = CatalogKeySet
  /\ Len(AddMetricCalls(client, tr.metrics)) = Cardinality(CatalogKeySet)
  /\ (Len(cli.ran) >= 4 /\ cli.req.from = {}) =>
        {cli.req.keys[i] : i \in 1..Len(cli.req.keys)} = TranslatorKeySet

C36_Witness ==
  /\ cli.wpc = "done" /\ cli.ok
  /\ cli.req.from = {} /\ cli.req.asked
  /\ Len(cli.req.keys) = Len(TranslatorKeys)
  /\ client.items = TranslatorKeySet

\* C37: the translation of a snapshot has an entry for exactly the
\* translator keys of the item map, whichever categories were sampled, and
\* the entry of a key whose category failed carries the zero value.
C37_FailedCategoryEmitsZero ==
  (sendAttempts > 0 /\ collectResult = "snapshot") =>
     /\ EmittedKeys(tr.wire) = TranslatorKeySet \cap tr.at.items
     /\ \A i \in 1..Len(TranslatorKeys) :
          (TranslatorKeys[i] \in tr.at.items /\ task[KeyCategory(i)] = "failed")
            => \E j \in 1..Len(tr.wire) :
                  /\ tr.wire[j].key = TranslatorKeys[i]
                  /\ tr.wire[j].value = "0"

C37_Witness ==
  /\ sendAttempts > 0 /\ collectResult = "snapshot"
  /\ task["CPU"] = "failed" /\ task["Memory"] = "ok"
  /\ \E j \in 1..Len(tr.wire) :
       tr.wire[j].key = "system.cpu.util[,idle]" /\ tr.wire[j].value = "0"
  /\ \E j \in 1..Len(tr.wire) :
       tr.wire[j].key = "vm.memory.util" /\ tr.wire[j].value = Sprintf(Sampled)

\* C38: the results channel has room for the result of every category
\* goroutine that has not yet reported, whether Collect is still receiving
\* or has returned, so no goroutine blocks on its send; every goroutine that
\* has finished has delivered its result.
C38_GoroutinesNeverBlock ==
  LET running == {c \in Categories : task[c] = "running"}
      finished == {c \in Categories : task[c] \in {"ok", "failed"}}
  IN /\ Len(results) + Cardinality(running) <= ResultsCap
     /\ recvd + Len(results) = Cardinality(finished)

C38_Witness ==
  /\ collectResult = "ctxErr" /\ cpc = "none"
  /\ recvd = 0
  /\ Len(results) = NumTasks
  /\ \A c \in Categories : task[c] \in {"ok", "failed"}

\* C39: when Collect has returned a snapshot it has received all four
\* results and every category goroutine has finished, having written its
\* category before it reported; when the context ended while Collect had not
\* returned and a goroutine had not yet reported, Collect returns an error
\* and no snapshot.
C39_SnapshotOnlyAfterAllResults ==
  /\ collectResult = "snapshot" =>
        /\ recvd = NumTasks
        /\ \A c \in Categories : task[c] \in {"ok", "failed"}
        /\ metricsSet = {c \in Categories : task[c] = "ok"}
  /\ collectResult = "ctxErr" => recvd < NumTasks
  /\ earlyEnd => collectResult \in {"none", "ctxErr", "allFailed"}

\* C40: with MaxRetries <= 0 no SendMetrics call, translation, backoff wait
\* or data-plane connection is ever made, and every cycle whose collection
\* returned a snapshot has ended as a failed send.
C40_NoBudgetNoAttempt ==
  maxRetries <= 0 =>
     /\ sendAttempts = 0 /\ translations = 0 /\ dials = 0
     /\ waits = <<>> /\ cpc # "backoff" /\ ~everSent
     /\ (collectResult = "snapshot" /\ cpc = "none") =>
           lastOutcome = "exhausted"
     /\ lastOutcome # "ok"

C40_Witness ==
  /\ maxRetries < 0
  /\ collectResult = "snapshot" /\ cpc = "none"
  /\ lastOutcome = "exhausted"
  /\ afterFailure
  /\ client.sender /\ client.items = CatalogKeySet

====
